---------------------------- MODULE Spec2Model ----------------------------
(***************************************************************************)
(* Model of the avatar animation core of AI_Desktop: the AvatarModel       *)
(* component (Character.tsx) with its two hooks, useCharacterAnimation and *)
(* useLipSync.                                                             *)
(*                                                                         *)
(* Numbers.  Morph target weights are reals in the source.  Here a weight  *)
(* w is the integer w * Scale; the table values are tenths, the smoothing  *)
(* factor is 7/10, so every value reached within MaxUpdates smoothing      *)
(* steps is represented exactly.  Animation speeds are kept in tenths.     *)
(*                                                                         *)
(* React.  One action is one change of the props of AvatarModel together   *)
(* with everything React then does before the next input: the render, the  *)
(* effects whose dependencies changed (in declaration order), and the      *)
(* re-render caused by the state they set with the effects that depend on  *)
(* that state.                                                             *)
(***************************************************************************)
EXTENDS Integers, Sequences, FiniteSets, TLC

(***************************************************************************)
(* Bounds of the model.                                                    *)
(***************************************************************************)
\* number of smoothing steps that change a weight (sets the precision Scale)
MaxUpdates == 3
\* number of viseme events the speech timing source delivers
MaxEvents == 3
\* length of every animation clip, in clip-time units
ClipDuration == 11
\* number of models loaded after the first one
MaxLoads == 2
\* number of toggle calls awaiting the backend and of timers running
MaxCalls == 2

Digits == MaxUpdates + 3
Scale == 10 ^ Digits

\* a weight given in hundredths
W(hundredths) == hundredths * (Scale \div 100)

\* visemeData = undefined
None == [phoneme |-> "undefined", timestamp |-> 0, duration |-> 0, intensity |-> 0]
\* no clip name (the result of find when nothing matches)
NoName == <<>>

(***************************************************************************)
(* useLipSync.ts: the viseme table.  Values in tenths.                     *)
(***************************************************************************)
VISEME_TO_MORPH_TARGET ==
  [ sil |-> <<>>,
    aa  |-> [jawOpen |-> 7, mouthFunnel |-> 2],
    ae  |-> [jawOpen |-> 5, mouthStretch |-> 3],
    ah  |-> [jawOpen |-> 4, mouthShrugLower |-> 2],
    ao  |-> [mouthFunnel |-> 8, jawOpen |-> 3],
    aw  |-> [mouthFunnel |-> 9, jawOpen |-> 4],
    ay  |-> [jawOpen |-> 6, mouthSmileLeft |-> 3, mouthSmileRight |-> 3],
    b   |-> [mouthClose |-> 10, mouthPressLeft |-> 5, mouthPressRight |-> 5],
    ch  |-> [mouthShrugUpper |-> 7, jawOpen |-> 2],
    d   |-> [tongueOut |-> 6, jawOpen |-> 3],
    dh  |-> [tongueOut |-> 8, jawOpen |-> 2],
    eh  |-> [jawOpen |-> 5, mouthStretch |-> 2],
    er  |-> [mouthFunnel |-> 6, jawOpen |-> 3],
    ey  |-> [jawOpen |-> 4, mouthSmileLeft |-> 4, mouthSmileRight |-> 4],
    f   |-> [mouthLowerDownLeft |-> 8, mouthLowerDownRight |-> 8,
             mouthUpperUpLeft |-> 3, mouthUpperUpRight |-> 3],
    g   |-> [jawOpen |-> 4, mouthShrugLower |-> 3],
    hh  |-> [jawOpen |-> 3, mouthDimpleLeft |-> 2, mouthDimpleRight |-> 2],
    ih  |-> [mouthSmileLeft |-> 4, mouthSmileRight |-> 4, jawOpen |-> 2],
    iy  |-> [mouthSmileLeft |-> 7, mouthSmileRight |-> 7, jawOpen |-> 1],
    jh  |-> [mouthShrugUpper |-> 8, jawOpen |-> 3],
    k   |-> [jawOpen |-> 3, mouthShrugLower |-> 4],
    l   |-> [tongueOut |-> 7, jawOpen |-> 2],
    m   |-> [mouthClose |-> 10, mouthPressLeft |-> 7, mouthPressRight |-> 7],
    n   |-> [tongueOut |-> 5, mouthClose |-> 3],
    ng  |-> [jawOpen |-> 2, mouthShrugLower |-> 5],
    ow  |-> [mouthFunnel |-> 9, jawOpen |-> 4],
    oy  |-> [mouthFunnel |-> 7, mouthSmileLeft |-> 3, mouthSmileRight |-> 3],
    p   |-> [mouthClose |-> 10, mouthPressLeft |-> 8, mouthPressRight |-> 8],
    r   |-> [mouthFunnel |-> 6, jawOpen |-> 2],
    s   |-> [mouthShrugUpper |-> 6, mouthShrugLower |-> 3],
    sh  |-> [mouthShrugUpper |-> 8, mouthFunnel |-> 4],
    t   |-> [tongueOut |-> 6, jawOpen |-> 2],
    th  |-> [tongueOut |-> 9, jawOpen |-> 1],
    uh  |-> [mouthFunnel |-> 5, jawOpen |-> 3],
    uw  |-> [mouthFunnel |-> 10, jawOpen |-> 2],
    v   |-> [mouthLowerDownLeft |-> 9, mouthLowerDownRight |-> 9,
             mouthUpperUpLeft |-> 4, mouthUpperUpRight |-> 4],
    w   |-> [mouthFunnel |-> 9, mouthPucker |-> 7],
    y   |-> [mouthSmileLeft |-> 5, mouthSmileRight |-> 5, jawOpen |-> 2],
    z   |-> [mouthShrugUpper |-> 5, mouthShrugLower |-> 4],
    zh  |-> [mouthShrugUpper |-> 7, mouthFunnel |-> 3] ]

\* the lookup falling back to the row of "aa"
targetMorphs_DefaultRow(phoneme) ==
  IF phoneme \in DOMAIN VISEME_TO_MORPH_TARGET
    THEN VISEME_TO_MORPH_TARGET[phoneme]
    ELSE VISEME_TO_MORPH_TARGET["aa"]

\* VISEME_TO_MORPH_TARGET[phoneme] || {}
targetMorphs(phoneme) ==
  IF phoneme \in DOMAIN VISEME_TO_MORPH_TARGET
    THEN VISEME_TO_MORPH_TARGET[phoneme]
    ELSE <<>>

LipChannels == UNION { DOMAIN VISEME_TO_MORPH_TARGET[p] : p \in DOMAIN VISEME_TO_MORPH_TARGET }

\* the channels the emotion effect resets
emotionTargets ==
  { "mouthSmileLeft", "mouthSmileRight", "mouthFrownLeft", "mouthFrownRight",
    "jawOpen", "eyeWideLeft", "eyeWideRight" }

BlinkChannels == { "eyeBlinkLeft", "eyeBlinkRight" }

AllChannels == LipChannels \cup emotionTargets \cup BlinkChannels


VARIABLES
  \* props of AvatarModel
  isListening, isSpeaking, emotion, visemeData,
  \* Date.now() of the speech timing source: the number of events so far
  now,
  \* useCharacterAnimation state
  currentAnimation, animationSpeed, bodyPose,
  \* useLipSync state
  lipSyncMorphTargets, currentViseme, isActive,
  \* gltf.animations (clip names), the running actions of the mixer (clip
  \* indices) and the time of every action
  animations, running, clipTime,
  \* the model loaded (useGLTF(url)): the number of loads after the first
  gltf,
  \* the skinned mesh: its channel names and their weights
  morphTargetDictionary, morphTargetInfluences,
  \* state.clock.elapsedTime at the last frame, in ms
  elapsedTime,
  \* a second, independent instance of useCharacterAnimation
  other,
  \* history: for every lip-sync channel, the number of consecutive runs of
  \* the lip-sync effect that applied the same target to it, or Untracked
  heldRuns,
  \* App (main.tsx): processingMode, whether window.__TAURI_INTERNALS__ is
  \* there, the toggle calls that await their invoke (each with the
  \* isListening and isSpeaking of the render that made it) and the timers
  \* of simulateVisemeData (each with its index and the isSpeaking it closed
  \* over)
  processingMode, tauri, inFlight, intervals

propVars == <<isListening, isSpeaking, emotion, visemeData, now>>
animVars == <<currentAnimation, animationSpeed, bodyPose>>
lipVars == <<lipSyncMorphTargets, currentViseme, isActive>>
clipVars == <<animations, running, clipTime, gltf>>
meshVars == <<morphTargetDictionary, morphTargetInfluences>>
appVars == <<processingMode, tauri, inFlight, intervals>>
vars == <<propVars, animVars, lipVars, clipVars, meshVars, elapsedTime, other, heldRuns,
          appVars>>

(***************************************************************************)
(* useCharacterAnimation (three.d.ts 85-139).  Speeds in tenths.           *)
(***************************************************************************)
\* the first effect with the two tests in the other order
ModeEffect_ListeningFirst(listening, speaking) ==
  IF listening
    THEN [currentAnimation |-> "listening", animationSpeed |-> 8, bodyPose |-> "attentive"]
    ELSE IF speaking
      THEN [currentAnimation |-> "talking", animationSpeed |-> 12, bodyPose |-> "engaged"]
      ELSE [currentAnimation |-> "idle", animationSpeed |-> 10, bodyPose |-> "neutral"]

\* the first effect with the listening branch leaving the speed at 1.0
ModeEffect_ListeningSpeed(listening, speaking) ==
  IF speaking
    THEN [currentAnimation |-> "talking", animationSpeed |-> 12, bodyPose |-> "engaged"]
    ELSE IF listening
      THEN [currentAnimation |-> "listening", animationSpeed |-> 10, bodyPose |-> "attentive"]
      ELSE [currentAnimation |-> "idle", animationSpeed |-> 10, bodyPose |-> "neutral"]

\* first effect, dependencies [isListening, isSpeaking]
ModeEffect(listening, speaking) ==
  IF speaking
    THEN [currentAnimation |-> "talking", animationSpeed |-> 12, bodyPose |-> "engaged"]
    ELSE IF listening
      THEN [currentAnimation |-> "listening", animationSpeed |-> 8, bodyPose |-> "attentive"]
      ELSE [currentAnimation |-> "idle", animationSpeed |-> 10, bodyPose |-> "neutral"]

\* second effect, dependencies [emotion]: st is the state the setters act on
EmotionEffect(e, st) ==
  CASE e = "happy" -> [st EXCEPT !.bodyPose = "cheerful", !.animationSpeed = 13]
    [] e = "sad" -> [st EXCEPT !.bodyPose = "dejected", !.animationSpeed = 7]
    [] e = "excited" -> [st EXCEPT !.bodyPose = "energetic", !.animationSpeed = 15]
    [] e = "calm" -> [st EXCEPT !.bodyPose = "relaxed", !.animationSpeed = 9]
    [] OTHER -> st

\* the hook's state after a render in which the props changed from
\* (l0, s0, e0) to (l1, s1, e1): each effect runs when one of its
\* dependencies changed, in declaration order, and the setters are batched
useCharacterAnimation(st, l0, s0, e0, l1, s1, e1) ==
  LET afterMode == IF l1 # l0 \/ s1 # s0 THEN ModeEffect(l1, s1) ELSE st
  IN IF e1 # e0 THEN EmotionEffect(e1, afterMode) ELSE afterMode

\* the hook's state after the mount with props (l, s, e): both effects run
useCharacterAnimationMount(l, s, e) == EmotionEffect(e, ModeEffect(l, s))

(***************************************************************************)
(* useLipSync (useLipSync.ts 61-143).  smoothing = 0.3 and intensity = 1.0 *)
(* are the defaults of the hook; AvatarModel passes neither.               *)
(***************************************************************************)
\* smoothing and intensity, in tenths
smoothing == 3
intensity == 10

\* obj[key] || 0
Get(obj, key) == IF key \in DOMAIN obj THEN obj[key] ELSE 0

\* the interpolation weighting the current value with the factor
interpolateValue_FactorOnCurrent(current, target, factor) ==
  current + ((target - current) * (10 - factor)) \div 10

\* the interpolation with a factor above 1: it steps past the target
interpolateValue_Extrapolating(current, target, factor) ==
  current + ((target - current) * (10 + factor)) \div 10

\* current + (target - current) * factor, factor in tenths
interpolateValue(current, target, factor) ==
  current + ((target - current) * factor) \div 10

\* value * intensity * visemeData.intensity for every entry of the table
\* row of the event's phoneme; the event's intensity is in tenths
scaledTargets(v) ==
  LET row == targetMorphs(v.phoneme)
  IN [k \in DOMAIN row |-> row[k] * intensity * v.intensity * (Scale \div 1000)]

\* the not-speaking branch without smoothing: every channel set to 0 at once
towardNeutral_Snap(prev) ==
  [k \in DOMAIN prev |-> 0]

\* the updater handed to setLipSyncMorphTargets, not-speaking branch
towardNeutral(prev) ==
  [k \in DOMAIN prev |-> interpolateValue(Get(prev, k), 0, 10 - smoothing)]

\* the speaking branch smoothing only the keys of the new targets
towardTargets_TargetKeysOnly(prev, scaled) ==
  [k \in DOMAIN scaled |->
     interpolateValue(Get(prev, k), Get(scaled, k), 10 - smoothing)]

\* the speaking branch without smoothing: every channel set to its target
towardTargets_Snap(prev, scaled) ==
  [k \in DOMAIN prev \cup DOMAIN scaled |-> Get(scaled, k)]

\* the updater handed to setLipSyncMorphTargets, speaking branch
towardTargets(prev, scaled) ==
  LET allKeys == DOMAIN prev \cup DOMAIN scaled
  IN [k \in allKeys |->
        interpolateValue(Get(prev, k), Get(scaled, k), 10 - smoothing)]

\* one run of the effect: the new [lipSyncMorphTargets, currentViseme, isActive]
lipSyncEffect(prev, speaking, v) ==
  IF ~speaking \/ v = None
    THEN [lipSyncMorphTargets |-> towardNeutral(prev),
          currentViseme |-> "sil", isActive |-> FALSE]
    ELSE [lipSyncMorphTargets |-> towardTargets(prev, scaledTargets(v)),
          currentViseme |-> v.phoneme, isActive |-> TRUE]

\* the targets one run of the effect smooths toward: none when not speaking
\* or without an event
targetsOf(speaking, v) ==
  IF ~speaking \/ v = None THEN <<>> ELSE scaledTargets(v)

\* the history is not kept
Untracked == <<>>
\* the longest run the history counts
MaxRun == MaxUpdates + 1

\* the history after a run of the effect with (speaking, v) that follows a
\* run with (speaking0, v0): a channel whose target is the same counts one
\* more run, any other channel starts again at 1
countRuns(history, speaking0, v0, speaking, v) ==
  IF history = Untracked THEN Untracked
  ELSE [k \in DOMAIN history |->
          IF Get(targetsOf(speaking, v), k) = Get(targetsOf(speaking0, v0), k)
            THEN IF history[k] < MaxRun THEN history[k] + 1 ELSE MaxRun
            ELSE 1]

\* the run computes every new weight without rounding at the model's precision
Representable(prev, speaking, v) ==
  LET tgt == IF ~speaking \/ v = None THEN <<>> ELSE scaledTargets(v)
  IN \A k \in DOMAIN prev \cup DOMAIN tgt :
       ((Get(tgt, k) - Get(prev, k)) * (10 - smoothing)) % 10 = 0

(***************************************************************************)
(* AvatarModel: the effects that write the mesh (Character.tsx 115-180).   *)
(***************************************************************************)
\* the lip sync effect zeroing the channels its input lacks
applyLipSync_ZeroOthers(influences, dictionary, lips) ==
  [c \in dictionary |-> IF c \in DOMAIN lips THEN lips[c] ELSE 0]

\* the lip sync effect clamping what it writes to [0, 1]
applyLipSync_Clamped(influences, dictionary, lips) ==
  [c \in dictionary |->
     IF c \in DOMAIN lips
       THEN IF lips[c] < 0 THEN 0 ELSE IF lips[c] > Scale THEN Scale ELSE lips[c]
       ELSE influences[c]]

\* lip sync effect: every key of lipSyncMorphTargets the mesh has is written
applyLipSync(influences, dictionary, lips) ==
  [c \in dictionary |-> IF c \in DOMAIN lips THEN lips[c] ELSE influences[c]]

\* the switch with the break of the 'happy' case missing
emotionOverride_Fallthrough(e) ==
  CASE e = "happy" -> [mouthSmileLeft |-> 70, mouthSmileRight |-> 70,
                       mouthFrownLeft |-> 50, mouthFrownRight |-> 50]
    [] e = "sad" -> [mouthFrownLeft |-> 50, mouthFrownRight |-> 50]
    [] e = "surprised" -> [jawOpen |-> 30, eyeWideLeft |-> 80, eyeWideRight |-> 80]
    [] OTHER -> <<>>

\* the switch of the emotion effect: the weights it writes, in hundredths
emotionOverride(e) ==
  CASE e = "happy" -> [mouthSmileLeft |-> 70, mouthSmileRight |-> 70]
    [] e = "sad" -> [mouthFrownLeft |-> 50, mouthFrownRight |-> 50]
    [] e = "surprised" -> [jawOpen |-> 30, eyeWideLeft |-> 80, eyeWideRight |-> 80]
    [] OTHER -> <<>>

\* the emotion effect resetting the emotion targets only for an emotion
\* that has an override
applyEmotion_ResetIfMatched(influences, dictionary, e) ==
  LET over == emotionOverride(e)
  IN [c \in dictionary |->
        IF c \in DOMAIN over THEN W(over[c])
        ELSE IF c \in emotionTargets /\ over # <<>> THEN 0
        ELSE influences[c]]

\* emotion effect: reset the emotion targets, then apply the current emotion
applyEmotion(influences, dictionary, e) ==
  LET over == emotionOverride(e)
  IN [c \in dictionary |->
        IF c \in DOMAIN over THEN W(over[c])
        ELSE IF c \in emotionTargets THEN 0
        ELSE influences[c]]

(***************************************************************************)
(* AvatarModel: animation clips (Character.tsx 62-100, 183-211).  A clip   *)
(* name is the sequence of its characters, so that toLowerCase and         *)
(* includes are computed as the source computes them.                      *)
(***************************************************************************)
UpperCase ==
  [ A |-> "a", B |-> "b", I |-> "i", L |-> "l", T |-> "t", W |-> "w" ]

toLowerCase(name) ==
  [i \in 1..Len(name) |->
     IF name[i] \in DOMAIN UpperCase THEN UpperCase[name[i]] ELSE name[i]]

includes(hay, needle) ==
  \E i \in 0..(Len(hay) - Len(needle)) :
    SubSeq(hay, i + 1, i + Len(needle)) = needle

\* the characters of the values of currentAnimation and of 'idle'
Chars ==
  [ idle |-> <<"i", "d", "l", "e">>,
    talking |-> <<"t", "a", "l", "k", "i", "n", "g">>,
    listening |-> <<"l", "i", "s", "t", "e", "n", "i", "n", "g">> ]

\* Object.keys(actionsRef.current): the distinct clip names, in the order
\* of their first insertion
availableAnimations(anims) ==
  LET keys[n \in 0..Len(anims)] ==
        IF n = 0 THEN <<>>
        ELSE IF \E j \in 1..(n - 1) : anims[j] = anims[n]
          THEN keys[n - 1]
          ELSE Append(keys[n - 1], anims[n])
  IN keys[Len(anims)]

\* actionsRef.current[name]: the action of the last clip with that name
actionOf(anims, name) ==
  CHOOSE i \in 1..Len(anims) :
    anims[i] = name /\ \A j \in (i + 1)..Len(anims) : anims[j] # name

\* the search returning the last match
find_Last(names, needle) ==
  LET hits == {i \in 1..Len(names) : includes(toLowerCase(names[i]), needle)}
  IN IF hits = {} THEN NoName
     ELSE names[CHOOSE i \in hits : \A j \in hits : i >= j]

\* names.find(name => name.toLowerCase().includes(needle)), NoName if absent
find(names, needle) ==
  LET hits == {i \in 1..Len(names) : includes(toLowerCase(names[i]), needle)}
  IN IF hits = {} THEN NoName
     ELSE names[CHOOSE i \in hits : \A j \in hits : i <= j]

\* the initialising effect: an action per clip, the idle-named ones played
initAnimations(anims) ==
  [ running |-> {i \in 1..Len(anims) : includes(toLowerCase(anims[i]), Chars["idle"])},
    clipTime |-> [i \in 1..Len(anims) |-> 0] ]

\* the clip the animation change effect starts: the first match of the
\* requested name, else the first idle-named clip, else none
targetAction(anims, anim) ==
  LET names == availableAnimations(anims)
      matchingName == find(names, toLowerCase(Chars[anim]))
      idleName == find(names, Chars["idle"])
  IN IF matchingName # NoName THEN actionOf(anims, matchingName)
     ELSE IF idleName # NoName THEN actionOf(anims, idleName)
     ELSE 0

\* the animation change effect: stop() on every action of actionsRef, then
\* reset() and play() on the target.  stop() deactivates and resets an
\* action, reset() sets its time to 0, play() activates it.
animationChangeEffect(anims, run, time, anim) ==
  LET names == availableAnimations(anims)
      refd == {actionOf(anims, names[k]) : k \in 1..Len(names)}
      stoppedRun == run \ refd
      stoppedTime == [i \in 1..Len(anims) |-> IF i \in refd THEN 0 ELSE time[i]]
      target == targetAction(anims, anim)
  IN IF target # 0
       THEN [ running |-> stoppedRun \cup {target},
              clipTime |-> [stoppedTime EXCEPT ![target] = 0] ]
       ELSE [ running |-> stoppedRun, clipTime |-> stoppedTime ]

\* mixer.update(dt): the running actions advance and loop (LoopRepeat)
mixerUpdate(run, time, dt) ==
  [i \in DOMAIN time |-> IF i \in run THEN (time[i] + dt) % ClipDuration ELSE time[i]]

(***************************************************************************)
(* AvatarModel: the blink of useFrame (Character.tsx 227-250).  Times in   *)
(* ms.  Math.sin is taken at the multiples of pi/6, which the frame times  *)
(* of the model hit.                                                       *)
(***************************************************************************)
blinkFrequency == 3000
blinkDuration == 150

\* Math.sin(x * Math.PI) for x = num/den a multiple of 1/6 in [0, 1];
\* sin(pi/3) to three places
sinPi(num, den) ==
  LET sixth == (6 * num) \div den
  IN CASE sixth \in {0, 6} -> 0
       [] sixth \in {1, 5} -> Scale \div 2
       [] sixth \in {2, 4} -> 866 * (Scale \div 1000)
       [] sixth = 3 -> Scale

\* blinkPhase < blinkDuration / blinkFrequency, with
\* blinkPhase = (time % blinkFrequency) / blinkFrequency
inBlinkWindow(time) == time % blinkFrequency < blinkDuration

blinkAmount(time) == sinPi(time % blinkFrequency, blinkDuration)

\* the blink pass writing the left eye only
applyBlink_LeftOnly(influences, dictionary, time) ==
  IF inBlinkWindow(time)
    THEN [c \in dictionary |->
            IF c = "eyeBlinkLeft" THEN blinkAmount(time) ELSE influences[c]]
    ELSE influences

\* the blink pass of one frame
applyBlink(influences, dictionary, time) ==
  IF inBlinkWindow(time)
    THEN [c \in dictionary |->
            IF c \in BlinkChannels THEN blinkAmount(time) ELSE influences[c]]
    ELSE influences

(***************************************************************************)
(* Inputs of the model.                                                    *)
(***************************************************************************)
Emotions == {"neutral", "happy", "sad", "surprised", "excited", "calm", "angry"}

Idle == <<"I", "d", "l", "e">>
IdleB == <<"i", "d", "l", "e", "_", "B">>
Talking == <<"T", "a", "l", "k", "i", "n", "g">>
Listening == <<"L", "i", "s", "t", "e", "n", "i", "n", "g">>
Wave == <<"W", "a", "v", "e">>

\* the clip lists of the models loaded
ClipSets ==
  { <<>>, <<Idle>>, <<Talking, Wave>>, <<Idle, Talking, Listening>>,
    <<Idle, IdleB, Talking>> }

\* phonemes and intensities (tenths) of the events delivered; "oh" is not
\* in the table
Phonemes == {"aa", "iy", "oh"}
Intensities == {5, 10}
\* the inputs of the face specification
FaceEmotions == {"neutral", "happy", "surprised"}
FacePhonemes == {"aa", "iy"}
FaceFrameTimes == {25, 75, 150, 3075}

\* the phonemes of the held targets; "b" has the largest target, 1.0
HoldPhonemes == {"aa", "b", "oh"}
\* event intensities (tenths) inside and outside [0, 1]
GainIntensities == {-5, 10, 20}
\* nominal durations of the events, in ms
Durations == {50, 200}
\* the events of the last-write-wins specification
Events == [phoneme : Phonemes, intensity : {10}, duration : Durations]

\* a mesh that lacks channels the lip sync drives (mouthFunnel,
\* mouthSmileRight) and has channels it never drives
PartialChannels == {"jawOpen", "mouthSmileLeft", "eyeWideLeft", "eyeBlinkLeft"}

\* the emotions and the frame times of the loading specification
LoadEmotions == {"neutral", "happy"}
LoadFrameTimes == {25}
\* the clip lists of the models loaded one after another
LoadClipSets == { <<>>, <<Idle>>, <<Talking, Wave>>, <<Idle, IdleB, Talking>> }

\* elapsed times of the frames rendered, in ms
FrameTimes == {0, 25, 50, 75, 125, 150, 2975, 3075}
\* frame deltas, in clip-time units per tenth of speed
Deltas == {1}

(***************************************************************************)
(* The state after the mount of AvatarModel with the initial props of App  *)
(* (main.tsx 192-195), for a model with the clips anims and a mesh with    *)
(* the channels dict.  All effects run in declaration order; the animation *)
(* change effect runs with the initial currentAnimation 'idle' and again   *)
(* if the hook's effects changed it.                                       *)
(***************************************************************************)
Mounted(anims, dict) ==
  LET hook == useCharacterAnimationMount(FALSE, FALSE, "neutral")
      lip == lipSyncEffect(<<>>, FALSE, None)
      started == initAnimations(anims)
      first == animationChangeEffect(anims, started.running, started.clipTime, "idle")
      clips == IF hook.currentAnimation # "idle"
                 THEN animationChangeEffect(anims, first.running, first.clipTime,
                                            hook.currentAnimation)
                 ELSE first
      zero == [c \in dict |-> 0]
  IN /\ isListening = FALSE
     /\ isSpeaking = FALSE
     /\ emotion = "neutral"
     /\ visemeData = None
     /\ now = 0
     /\ currentAnimation = hook.currentAnimation
     /\ animationSpeed = hook.animationSpeed
     /\ bodyPose = hook.bodyPose
     /\ lipSyncMorphTargets = lip.lipSyncMorphTargets
     /\ currentViseme = lip.currentViseme
     /\ isActive = lip.isActive
     /\ animations = anims
     /\ gltf = 0
     /\ running = clips.running
     /\ clipTime = clips.clipTime
     /\ morphTargetDictionary = dict
     /\ morphTargetInfluences =
          applyEmotion(applyLipSync(zero, dict, lip.lipSyncMorphTargets), dict, "neutral")
     /\ elapsedTime = 0
     /\ other = [isListening |-> FALSE, isSpeaking |-> FALSE, emotion |-> "neutral",
                 state |-> hook]

\* the initial state of App in a webview with (Tauri) or without the
\* backend
AppMounted(withBackend) ==
  /\ processingMode = "idle"
  /\ tauri = withBackend
  /\ inFlight = <<>>
  /\ intervals = <<>>

\* the mounted component, no history kept, its props driven directly
InitWith(anims, dict) ==
  /\ Mounted(anims, dict)
  /\ heldRuns = Untracked
  /\ AppMounted(FALSE)

(***************************************************************************)
(* One change of the props (isListening, isSpeaking, emotion, visemeData)  *)
(* to (l, s, e, v).  newViseme says that visemeData is another object than *)
(* before (an event is a new object every time).  First render: the        *)
(* effects of useCharacterAnimation, the effect of useLipSync and the      *)
(* emotion effect run if a dependency of theirs changed.  The state they   *)
(* set causes a second render, in which the lip sync effect of AvatarModel *)
(* runs if lipSyncMorphTargets was set (always to a new object) and the    *)
(* animation change effect runs if currentAnimation changed.               *)
(***************************************************************************)
Commit(l, s, e, v, newViseme) ==
  LET st == [currentAnimation |-> currentAnimation,
             animationSpeed |-> animationSpeed, bodyPose |-> bodyPose]
      hook == useCharacterAnimation(st, isListening, isSpeaking, emotion, l, s, e)
      lipRuns == s # isSpeaking \/ newViseme
      lip == IF lipRuns
               THEN lipSyncEffect(lipSyncMorphTargets, s, v)
               ELSE [lipSyncMorphTargets |-> lipSyncMorphTargets,
                     currentViseme |-> currentViseme, isActive |-> isActive]
      expressed == IF e # emotion
                     THEN applyEmotion(morphTargetInfluences, morphTargetDictionary, e)
                     ELSE morphTargetInfluences
      clips == IF hook.currentAnimation # currentAnimation
                 THEN animationChangeEffect(animations, running, clipTime,
                                            hook.currentAnimation)
                 ELSE [running |-> running, clipTime |-> clipTime]
  IN /\ lipRuns => Representable(lipSyncMorphTargets, s, v)
     /\ isListening' = l
     /\ isSpeaking' = s
     /\ emotion' = e
     /\ visemeData' = v
     /\ currentAnimation' = hook.currentAnimation
     /\ animationSpeed' = hook.animationSpeed
     /\ bodyPose' = hook.bodyPose
     /\ lipSyncMorphTargets' = lip.lipSyncMorphTargets
     /\ currentViseme' = lip.currentViseme
     /\ isActive' = lip.isActive
     /\ morphTargetInfluences' =
          IF lipRuns
            THEN applyLipSync(expressed, morphTargetDictionary, lip.lipSyncMorphTargets)
            ELSE expressed
     /\ running' = clips.running
     /\ clipTime' = clips.clipTime
     /\ heldRuns' = IF lipRuns
                      THEN countRuns(heldRuns, isSpeaking, visemeData, s, v)
                      ELSE heldRuns
     /\ UNCHANGED <<animations, gltf, morphTargetDictionary, elapsedTime, other>>

\* a change of the props that does not come from the toggles of App
Render(l, s, e, v, newViseme) ==
  /\ Commit(l, s, e, v, newViseme)
  /\ UNCHANGED appVars

\* the mode source changes isListening and isSpeaking
SetMode(l, s) ==
  /\ <<l, s>> # <<isListening, isSpeaking>>
  /\ Render(l, s, emotion, visemeData, FALSE)
  /\ UNCHANGED now

\* the emotion source changes the emotion
SetEmotion(e) ==
  /\ e # emotion
  /\ Render(isListening, isSpeaking, e, visemeData, FALSE)
  /\ UNCHANGED now

\* the speech timing source delivers an event
SetViseme(phoneme, evIntensity) ==
  /\ now < MaxEvents
  /\ now' = now + 1
  /\ Render(isListening, isSpeaking, emotion,
            [phoneme |-> phoneme, timestamp |-> now + 1, duration |-> 200,
             intensity |-> evIntensity], TRUE)

\* the speech timing source delivers an event with the given duration
SetVisemeLasting(phoneme, evIntensity, duration) ==
  /\ now < MaxEvents
  /\ now' = now + 1
  /\ Render(isListening, isSpeaking, emotion,
            [phoneme |-> phoneme, timestamp |-> now + 1, duration |-> duration,
             intensity |-> evIntensity], TRUE)

\* two events before one render, the earlier one kept
SetVisemeBatch_FirstWins(first, last) ==
  /\ now + 2 <= MaxEvents
  /\ now' = now + 2
  /\ Render(isListening, isSpeaking, emotion,
            [phoneme |-> first.phoneme, timestamp |-> now + 1,
             duration |-> first.duration, intensity |-> first.intensity], TRUE)

\* the speech timing source delivers two events before React renders:
\* setVisemeData is called twice and the render sees the later value
SetVisemeBatch(first, last) ==
  /\ now + 2 <= MaxEvents
  /\ now' = now + 2
  /\ Render(isListening, isSpeaking, emotion,
            [phoneme |-> last.phoneme, timestamp |-> now + 2,
             duration |-> last.duration, intensity |-> last.intensity], TRUE)

\* the speech timing source clears the event
ClearViseme ==
  /\ visemeData # None
  /\ Render(isListening, isSpeaking, emotion, None, TRUE)
  /\ UNCHANGED now

\* an emotion change and an event in the same render
SetEmotionAndViseme(e, phoneme, evIntensity) ==
  /\ e # emotion
  /\ now < MaxEvents
  /\ now' = now + 1
  /\ Render(isListening, isSpeaking, e,
            [phoneme |-> phoneme, timestamp |-> now + 1, duration |-> 200,
             intensity |-> evIntensity], TRUE)

\* speech stops: isSpeaking false and visemeData undefined in one render
\* (main.tsx 256-258)
StopSpeech ==
  /\ isSpeaking
  /\ Render(isListening, FALSE, emotion, None, visemeData # None)
  /\ UNCHANGED now

\* a frame that forwards the resolved clip to the player again
FrameTick_Forwarding(t, d) ==
  LET clips == animationChangeEffect(animations, running, clipTime, currentAnimation)
  IN /\ elapsedTime' = t
     /\ running' = clips.running
     /\ clipTime' = mixerUpdate(clips.running, clips.clipTime, d * animationSpeed)
     /\ morphTargetInfluences' = applyBlink(morphTargetInfluences, morphTargetDictionary, t)
     /\ UNCHANGED <<propVars, animVars, lipVars, animations, gltf,
                    morphTargetDictionary, other, heldRuns, appVars>>

\* one frame (useFrame) at elapsed time t with delta d
FrameTick(t, d) ==
  /\ elapsedTime' = t
  /\ clipTime' = mixerUpdate(running, clipTime, d * animationSpeed)
  /\ running' = running
  /\ morphTargetInfluences' = applyBlink(morphTargetInfluences, morphTargetDictionary, t)
  /\ UNCHANGED <<propVars, animVars, lipVars, animations, gltf,
                 morphTargetDictionary, other, heldRuns, appVars>>

\* names is the beginning of longer
IsPrefix(names, longer) ==
  Len(names) <= Len(longer) /\ SubSeq(longer, 1, Len(names)) = names

\* the url changes and another model is loaded: the initialising effect
\* runs again (dependencies [gltf]) with a new mixer, an action per clip
\* and the idle-named clips played; then the effects on avatarMeshes, lip
\* sync before emotion, write the new mesh.  The animation change effect
\* does not run.  The models extend the clip list of the model before, so
\* that every key of actionsRef names a clip of the model loaded.
LoadModel(anims) ==
  LET started == initAnimations(anims)
      zero == [c \in morphTargetDictionary |-> 0]
  IN /\ gltf < MaxLoads
     /\ IsPrefix(availableAnimations(animations), availableAnimations(anims))
     /\ gltf' = gltf + 1
     /\ animations' = anims
     /\ running' = started.running
     /\ clipTime' = started.clipTime
     /\ morphTargetInfluences' =
          applyEmotion(applyLipSync(zero, morphTargetDictionary, lipSyncMorphTargets),
                       morphTargetDictionary, emotion)
     /\ UNCHANGED <<propVars, animVars, lipVars, morphTargetDictionary,
                    elapsedTime, other, heldRuns, appVars>>

(***************************************************************************)
(* App (main.tsx 190-300).  A toggle is an async function: the part up to  *)
(* its await runs at once and its state updates are one batch, so one      *)
(* render; the part after the await, or the catch block when the invoke    *)
(* rejects, runs later as another batch.  Without the backend nothing is   *)
(* awaited and the whole call is one batch.  A call reads the isListening  *)
(* and isSpeaking of the render that made the function.                    *)
(***************************************************************************)
compVars == <<propVars, animVars, lipVars, clipVars, meshVars, elapsedTime, other,
              heldRuns>>

RemoveAt(seq, i) == SubSeq(seq, 1, i - 1) \o SubSeq(seq, i + 1, Len(seq))

\* room for one more awaiting call or timer
HasRoom == Len(inFlight) + Len(intervals) < MaxCalls

\* the list of simulateVisemeData
visemes == <<"aa", "eh", "ih", "oh", "uw", "b", "m", "f", "th", "s">>
\* 0.8 + Math.random() * 0.2, in tenths
SimIntensities == {8, 9}

\* toggleListening with the stop branch setting nothing before the other
\* flag is cleared
toggleListening_KeepSpeaking ==
  IF isListening
    THEN IF tauri
      THEN /\ HasRoom
           /\ inFlight' = Append(inFlight, [command |-> "stop_listening",
                                            isSpeaking |-> isSpeaking])
           /\ UNCHANGED <<compVars, processingMode, tauri, intervals>>
      ELSE /\ Commit(FALSE, isSpeaking, emotion, visemeData, FALSE)
           /\ processingMode' = "idle"
           /\ UNCHANGED <<now, tauri, inFlight, intervals>>
    ELSE /\ Commit(TRUE, isSpeaking, emotion, visemeData, FALSE)
         /\ processingMode' = "listening"
         /\ IF tauri
              THEN /\ HasRoom
                   /\ inFlight' = Append(inFlight, [command |-> "start_listening",
                                                    isSpeaking |-> isSpeaking])
              ELSE inFlight' = inFlight
         /\ UNCHANGED <<now, tauri, intervals>>

\* toggleListening (215-247)
toggleListening ==
  IF isListening
    THEN IF tauri
      THEN /\ HasRoom
           /\ inFlight' = Append(inFlight, [command |-> "stop_listening",
                                            isSpeaking |-> isSpeaking])
           /\ UNCHANGED <<compVars, processingMode, tauri, intervals>>
      ELSE /\ Commit(FALSE, isSpeaking, emotion, visemeData, FALSE)
           /\ processingMode' = "idle"
           /\ UNCHANGED <<now, tauri, inFlight, intervals>>
    ELSE /\ Commit(TRUE, FALSE, emotion, visemeData, FALSE)
         /\ processingMode' = "listening"
         /\ IF tauri
              THEN /\ HasRoom
                   /\ inFlight' = Append(inFlight, [command |-> "start_listening",
                                                    isSpeaking |-> isSpeaking])
              ELSE inFlight' = inFlight
         /\ UNCHANGED <<now, tauri, intervals>>

\* toggleSpeaking (249-280); without the backend simulateVisemeData is
\* called in the same batch
toggleSpeaking ==
  IF isSpeaking
    THEN IF tauri
      THEN /\ HasRoom
           /\ inFlight' = Append(inFlight, [command |-> "stop_speaking",
                                            isSpeaking |-> isSpeaking])
           /\ UNCHANGED <<compVars, processingMode, tauri, intervals>>
      ELSE /\ Commit(isListening, FALSE, emotion, None, visemeData # None)
           /\ processingMode' = "idle"
           /\ UNCHANGED <<now, tauri, inFlight, intervals>>
    ELSE /\ HasRoom
         /\ Commit(FALSE, TRUE, emotion, visemeData, FALSE)
         /\ processingMode' = "speaking"
         /\ IF tauri
              THEN /\ inFlight' = Append(inFlight, [command |-> "start_speaking",
                                                    isSpeaking |-> isSpeaking])
                   /\ intervals' = intervals
              ELSE /\ inFlight' = inFlight
                   /\ intervals' = Append(intervals, [index |-> 0,
                                                      isSpeaking |-> isSpeaking])
         /\ UNCHANGED <<now, tauri>>

\* the invoke of the i-th awaiting call resolves: the rest of its try block
invokeResolves(i) ==
  LET call == inFlight[i]
  IN /\ inFlight' = RemoveAt(inFlight, i)
     /\ CASE call.command = "start_listening" ->
               UNCHANGED <<compVars, processingMode, tauri, intervals>>
          [] call.command = "stop_listening" ->
               /\ Commit(FALSE, isSpeaking, emotion, visemeData, FALSE)
               /\ processingMode' = "idle"
               /\ UNCHANGED <<now, tauri, intervals>>
          [] call.command = "start_speaking" ->
               /\ intervals' = Append(intervals, [index |-> 0,
                                                  isSpeaking |-> call.isSpeaking])
               /\ UNCHANGED <<compVars, processingMode, tauri>>
          [] call.command = "stop_speaking" ->
               /\ Commit(isListening, FALSE, emotion, None, visemeData # None)
               /\ processingMode' = "idle"
               /\ UNCHANGED <<now, tauri, intervals>>

\* the invoke of the i-th awaiting call rejects: its catch block
invokeRejects(i) ==
  LET call == inFlight[i]
  IN /\ inFlight' = RemoveAt(inFlight, i)
     /\ processingMode' = "idle"
     /\ IF call.command \in {"start_listening", "stop_listening"}
          THEN Commit(FALSE, isSpeaking, emotion, visemeData, FALSE)
          ELSE Commit(isListening, FALSE, emotion, None, visemeData # None)
     /\ UNCHANGED <<now, tauri, intervals>>

\* a tick of the j-th timer of simulateVisemeData (286-299)
intervalTick(j, evIntensity) ==
  LET timer == intervals[j]
  IN IF timer.index < Len(visemes) /\ timer.isSpeaking
       THEN /\ now < MaxEvents
            /\ now' = now + 1
            /\ Commit(isListening, isSpeaking, emotion,
                      [phoneme |-> visemes[timer.index + 1], timestamp |-> now + 1,
                       duration |-> 200, intensity |-> evIntensity], TRUE)
            /\ intervals' = [intervals EXCEPT ![j].index = @ + 1]
            /\ UNCHANGED <<processingMode, tauri, inFlight>>
       ELSE /\ intervals' = RemoveAt(intervals, j)
            /\ Commit(isListening, isSpeaking, emotion, None, visemeData # None)
            /\ UNCHANGED <<now, processingMode, tauri, inFlight>>

\* the same changes on the second instance of useCharacterAnimation
SetModeOther(l, s) ==
  /\ <<l, s>> # <<other.isListening, other.isSpeaking>>
  /\ other' = [other EXCEPT
       !.isListening = l, !.isSpeaking = s,
       !.state = useCharacterAnimation(other.state, other.isListening,
                   other.isSpeaking, other.emotion, l, s, other.emotion)]
  /\ UNCHANGED <<propVars, animVars, lipVars, clipVars, meshVars, elapsedTime, heldRuns, appVars>>

SetEmotionOther(e) ==
  /\ e # other.emotion
  /\ other' = [other EXCEPT
       !.emotion = e,
       !.state = useCharacterAnimation(other.state, other.isListening,
                   other.isSpeaking, other.emotion, other.isListening,
                   other.isSpeaking, e)]
  /\ UNCHANGED <<propVars, animVars, lipVars, clipVars, meshVars, elapsedTime, heldRuns, appVars>>

(***************************************************************************)
(* Specifications.                                                         *)
(***************************************************************************)
\* animation state and clips: any clip list, a mesh without morph targets,
\* no speech timing source
InitAnim == \E anims \in ClipSets : InitWith(anims, {})

NextAnim ==
  \/ \E l, s \in BOOLEAN : SetMode(l, s)
  \/ \E e \in Emotions : SetEmotion(e)
  \/ \E t \in FrameTimes, d \in Deltas : FrameTick(t, d)

SpecAnim == InitAnim /\ [][NextAnim]_vars

\* two instances of useCharacterAnimation with independent input histories
InitPair == InitWith(<<>>, {})

NextPair ==
  \/ \E l, s \in BOOLEAN : SetMode(l, s)
  \/ \E e \in Emotions : SetEmotion(e)
  \/ \E l, s \in BOOLEAN : SetModeOther(l, s)
  \/ \E e \in Emotions : SetEmotionOther(e)

SpecPair == InitPair /\ [][NextPair]_vars

\* the lip-sync hook alone: a model without clips and without morph targets
InitLip == InitWith(<<>>, {})

NextLip ==
  \/ \E l, s \in BOOLEAN : SetMode(l, s)
  \/ \E p \in Phonemes, i \in Intensities : SetViseme(p, i)
  \/ ClearViseme
  \/ StopSpeech

SpecLip == InitLip /\ [][NextLip]_vars

\* the face: a model without clips whose mesh has every channel
InitFace == InitWith(<<>>, AllChannels)

NextFace ==
  \/ \E s \in BOOLEAN : SetMode(FALSE, s)
  \/ \E e \in FaceEmotions : SetEmotion(e)
  \/ \E p \in FacePhonemes : SetViseme(p, 10)
  \/ ClearViseme
  \/ \E e \in FaceEmotions, p \in FacePhonemes : SetEmotionAndViseme(e, p, 10)
  \/ StopSpeech
  \/ \E t \in FaceFrameTimes, d \in Deltas : FrameTick(t, d)

SpecFace == InitFace /\ [][NextFace]_vars

\* speech over a neutral face with frames that keep ticking: useFrame calls
\* its callback on every frame of the render loop
InitLive == InitWith(<<>>, AllChannels)

Frames == \E t \in FaceFrameTimes, d \in Deltas : FrameTick(t, d)

NextLive ==
  \/ \E s \in BOOLEAN : SetMode(FALSE, s)
  \/ \E p \in FacePhonemes : SetViseme(p, 10)
  \/ ClearViseme
  \/ StopSpeech
  \/ Frames

SpecLive == InitLive /\ [][NextLive]_vars /\ WF_vars(Frames)

\* events that supersede one another, singly or two before one render
InitLast == InitWith(<<>>, {})

NextLast ==
  \/ \E s \in BOOLEAN : SetMode(FALSE, s)
  \/ \E ev \in Events : SetVisemeLasting(ev.phoneme, ev.intensity, ev.duration)
  \/ \E first, last \in Events : SetVisemeBatch(first, last)
  \/ ClearViseme
  \/ StopSpeech

SpecLast == InitLast /\ [][NextLast]_vars

\* the expressions: every emotion tag over a face that speaks
InitExpr == InitWith(<<>>, AllChannels)

NextExpr ==
  \/ \E s \in BOOLEAN : SetMode(FALSE, s)
  \/ \E e \in Emotions : SetEmotion(e)
  \/ \E p \in FacePhonemes : SetViseme(p, 10)
  \/ \E e \in Emotions, p \in FacePhonemes : SetEmotionAndViseme(e, p, 10)
  \/ StopSpeech

SpecExpr == InitExpr /\ [][NextExpr]_vars

\* events of any intensity over a mesh with every channel
InitGain == InitWith(<<>>, AllChannels)

NextGain ==
  \/ \E s \in BOOLEAN : SetMode(FALSE, s)
  \/ \E p \in FacePhonemes, i \in GainIntensities : SetViseme(p, i)
  \/ ClearViseme
  \/ StopSpeech

SpecGain == InitGain /\ [][NextGain]_vars

\* targets held over several updates: the lip-sync hook with the history
\* of runs kept; the effect has run once in the mount, toward no target
InitHold ==
  /\ Mounted(<<>>, {})
  /\ heldRuns = [k \in LipChannels |-> 1]
  /\ AppMounted(FALSE)

NextHold ==
  \/ \E l, s \in BOOLEAN : SetMode(l, s)
  \/ \E p \in HoldPhonemes, i \in Intensities : SetViseme(p, i)
  \/ ClearViseme
  \/ StopSpeech

SpecHold == InitHold /\ [][NextHold]_vars

\* the modes under the emotion of the mount: any clip list, no emotion change
InitMode == \E anims \in ClipSets : InitWith(anims, {})

NextMode ==
  \/ \E l, s \in BOOLEAN : SetMode(l, s)
  \/ \E t \in FrameTimes, d \in Deltas : FrameTick(t, d)

SpecMode == InitMode /\ [][NextMode]_vars

\* models loaded one after another into the mounted component, with the
\* modes, emotions, events and frames in between
InitLoad == \E anims \in LoadClipSets : InitWith(anims, {})

NextLoad ==
  \/ \E l, s \in BOOLEAN : SetMode(l, s)
  \/ \E e \in LoadEmotions : SetEmotion(e)
  \/ SetViseme("aa", 10)
  \/ \E t \in LoadFrameTimes, d \in Deltas : FrameTick(t, d)
  \/ \E anims \in LoadClipSets : LoadModel(anims)

SpecLoad == InitLoad /\ [][NextLoad]_vars

\* lip sync over a mesh with a part of the channels
InitPartial == InitWith(<<>>, PartialChannels)

NextPartial ==
  \/ \E s \in BOOLEAN : SetMode(FALSE, s)
  \/ \E e \in FaceEmotions : SetEmotion(e)
  \/ \E p \in FacePhonemes : SetViseme(p, 10)
  \/ ClearViseme
  \/ StopSpeech
  \/ \E t \in FaceFrameTimes, d \in Deltas : FrameTick(t, d)

SpecPartial == InitPartial /\ [][NextPartial]_vars

\* utterances under an emotion chosen while nothing is spoken; frames keep
\* coming
InitUtter == InitWith(<<>>, AllChannels)

NextUtter ==
  \/ \E s \in BOOLEAN : SetMode(FALSE, s)
  \/ \E p \in FacePhonemes : SetViseme(p, 10)
  \/ ClearViseme
  \/ StopSpeech
  \/ \E e \in FaceEmotions : ~isSpeaking /\ SetEmotion(e)
  \/ Frames

SpecUtter == InitUtter /\ [][NextUtter]_vars /\ WF_vars(Frames)

\* lip sync over full-weight, unknown and zero-intensity events
RangePhonemes == {"b", "uw", "xx"}
RangeIntensities == {0, 10}

InitRange == InitWith(<<>>, {})

NextRange ==
  \/ \E l, s \in BOOLEAN : SetMode(l, s)
  \/ \E p \in RangePhonemes, i \in RangeIntensities : SetViseme(p, i)
  \/ ClearViseme
  \/ StopSpeech

SpecRange == InitRange /\ [][NextRange]_vars

\* App with its toggles, with and without the backend
InitApp ==
  /\ Mounted(<<>>, {})
  /\ heldRuns = Untracked
  /\ \E withBackend \in BOOLEAN : AppMounted(withBackend)

NextApp ==
  \/ toggleListening
  \/ toggleSpeaking
  \/ \E i \in 1..Len(inFlight) : invokeResolves(i)
  \/ \E i \in 1..Len(inFlight) : invokeRejects(i)
  \/ \E j \in 1..Len(intervals), x \in SimIntensities : intervalTick(j, x)
  \/ \E e \in FaceEmotions : SetEmotion(e)

SpecApp == InitApp /\ [][NextApp]_vars

(***************************************************************************)
(* Properties.                                                             *)
(***************************************************************************)
Abs(x) == IF x < 0 THEN -x ELSE x

\* 1e-3
Epsilon == Scale \div 1000

\* C1: whenever the emotion is "happy" (effects settled), animationSpeed is
\* 1.3 and bodyPose is "cheerful", whatever isListening and isSpeaking are
\* and in whatever order the inputs changed.
C1_HappyOverrides ==
  emotion = "happy" => animationSpeed = 13 /\ bodyPose = "cheerful"

\* C2: while speaking with an active viseme, every channel that is a key of
\* the lip-sync output and an expression channel (jawOpen, mouthSmileLeft,
\* mouthSmileRight) has on the mesh the lip-sync weight.
C2_LipSyncOverExpression ==
  (isSpeaking /\ visemeData # None) =>
    \A c \in DOMAIN lipSyncMorphTargets \cap {"jawOpen", "mouthSmileLeft", "mouthSmileRight"} :
      c \in morphTargetDictionary => morphTargetInfluences[c] = lipSyncMorphTargets[c]

\* every lip-sync channel is within 1e-3 of 0, in the hook and on the mesh
Silent ==
  \A k \in DOMAIN lipSyncMorphTargets :
    /\ Abs(lipSyncMorphTargets[k]) <= Epsilon
    /\ k \in morphTargetDictionary => Abs(morphTargetInfluences[k]) <= Epsilon

\* C3: once isSpeaking is false for good and no input changes any more
\* (only frames tick), eventually every lip-sync channel is within 1e-3 of
\* 0 and stays there.
C3_EventuallySilent ==
  (<>[](~isSpeaking) /\ <>[][Frames]_vars) => <>[]Silent

\* the target of channel k for the event v: the table value scaled by the
\* gain 1.0 and the event's intensity, 0 for a channel the phoneme lacks
TargetOf(v, k) ==
  IF v.phoneme \in DOMAIN VISEME_TO_MORPH_TARGET
     /\ k \in DOMAIN VISEME_TO_MORPH_TARGET[v.phoneme]
    THEN VISEME_TO_MORPH_TARGET[v.phoneme][k] * 10 * v.intensity * (Scale \div 1000)
    ELSE 0

\* C4: the smoothing state is reset when isSpeaking goes from true to
\* false, so the first update of the next utterance smooths from 0 on
\* every channel: new[k] = 0 + (target[k] - 0) * 0.7.
C4_NextUtteranceFromZero ==
  [][(~isSpeaking /\ isSpeaking' /\ visemeData' # None) =>
       \A k \in DOMAIN lipSyncMorphTargets' :
         10 * lipSyncMorphTargets'[k] = 7 * TargetOf(visemeData', k)]_vars

\* no clip name contains the requested name or "idle"
NoClipFor(anim) ==
  \A i \in 1..Len(animations) :
    /\ ~includes(toLowerCase(animations[i]), Chars[anim])
    /\ ~includes(toLowerCase(animations[i]), Chars["idle"])

\* C5: when the resolved clip name changes and no clip matches it or
\* "idle", the handler is a no-op: what was playing keeps playing.
C5_NoMatchIsNoOp ==
  [][(currentAnimation' # currentAnimation /\ NoClipFor(currentAnimation')) =>
       (running' = running /\ clipTime' = clipTime)]_vars

\* C6: when a state change resolves to the clip that is already playing,
\* that clip is not stopped, reset or restarted: it keeps running at its
\* time.
C6_SameClipNotRestarted ==
  [][(currentAnimation' # currentAnimation
      /\ targetAction(animations, currentAnimation') \in running) =>
       LET i == targetAction(animations, currentAnimation')
       IN i \in running' /\ clipTime'[i] = clipTime[i]]_vars

\* C7: at a frame outside the blink window the mesh has eyeBlinkLeft and
\* eyeBlinkRight at exactly 0; inside the window both hold the pulse
\* sin(pi * phase / window) of the frame's elapsed time.
C7_BlinkFollowsTime ==
  \A c \in BlinkChannels \cap morphTargetDictionary :
    IF elapsedTime % 3000 >= 150
      THEN morphTargetInfluences[c] = 0
      ELSE morphTargetInfluences[c] = sinPi(elapsedTime % 3000, 150)

\* C8: currentAnimation is "talking" if isSpeaking (also when isListening),
\* else "listening" if isListening, else "idle"; and a change of the
\* emotion never changes currentAnimation.
C8_ClipFollowsMode ==
  /\ [](currentAnimation =
          IF isSpeaking THEN "talking"
          ELSE IF isListening THEN "listening" ELSE "idle")
  /\ [][emotion' # emotion => currentAnimation' = currentAnimation]_vars

C8_Witness ==
  /\ isSpeaking /\ isListening /\ emotion = "happy"
  /\ currentAnimation = "talking"

\* C9: the AnimationState depends only on the current (isListening,
\* isSpeaking, emotion): two histories of input changes that end in the
\* same inputs yield the same state.
C9_LevelTriggered ==
  (other.isListening = isListening /\ other.isSpeaking = isSpeaking
   /\ other.emotion = emotion) =>
    other.state = [currentAnimation |-> currentAnimation,
                   animationSpeed |-> animationSpeed, bodyPose |-> bodyPose]

\* a step in which the lip-sync effect runs in its speaking branch
SpeakingUpdate ==
  /\ isSpeaking' /\ visemeData' # None
  /\ (isSpeaking' # isSpeaking \/ visemeData' # visemeData)

\* C10: a run of the lip-sync update while speaking with an active viseme
\* sets new[k] = old[k] + (target[k] - old[k]) * 0.7 for every k of the
\* previous output and of the target (absent taken as 0) and drops no
\* channel of the previous output.
C10_SmoothingStep ==
  [][SpeakingUpdate =>
       /\ DOMAIN lipSyncMorphTargets' =
            DOMAIN lipSyncMorphTargets \cup DOMAIN targetMorphs(visemeData'.phoneme)
       /\ \A k \in DOMAIN lipSyncMorphTargets' :
            LET old == IF k \in DOMAIN lipSyncMorphTargets
                         THEN lipSyncMorphTargets[k] ELSE 0
            IN 10 * (lipSyncMorphTargets'[k] - old) = 7 * (TargetOf(visemeData', k) - old)]_vars

\* a channel of an earlier event is carried, still fading, by an update
\* whose target lacks it
C10_Witness ==
  /\ isSpeaking /\ visemeData # None /\ visemeData.phoneme = "iy"
  /\ "mouthFunnel" \in DOMAIN lipSyncMorphTargets
  /\ lipSyncMorphTargets["mouthFunnel"] > 0
  /\ lipSyncMorphTargets["mouthSmileLeft"] > 0

\* a step in which the lip-sync effect runs in its not-speaking branch
NeutralUpdate ==
  /\ isSpeaking' # isSpeaking \/ visemeData' # visemeData
  /\ ~isSpeaking' \/ visemeData' = None

\* C11: a run of the lip-sync update with isSpeaking false or without a
\* viseme event sets new[k] = old[k] * 0.3 for every channel k of the
\* previous output (target 0), adds no channel and drops none, and sets
\* currentViseme to "sil" and isActive to false.
C11_DecayStep ==
  [][NeutralUpdate =>
       /\ DOMAIN lipSyncMorphTargets' = DOMAIN lipSyncMorphTargets
       /\ \A k \in DOMAIN lipSyncMorphTargets :
            10 * lipSyncMorphTargets'[k] = 3 * lipSyncMorphTargets[k]
       /\ currentViseme' = "sil"
       /\ isActive' = FALSE]_vars

\* speech has stopped after an "aa" at full intensity: one decay step took
\* jawOpen from 0.49 to 0.147
C11_Witness ==
  /\ ~isSpeaking /\ visemeData = None
  /\ currentViseme = "sil" /\ ~isActive
  /\ "jawOpen" \in DOMAIN lipSyncMorphTargets
  /\ lipSyncMorphTargets["jawOpen"] = 147 * (Scale \div 1000)

\* C12: when events arrive while speaking, the event the update uses is the
\* latest one delivered; its target is the table row of that event's
\* phoneme scaled by its intensity, and every channel the row lacks (one
\* that only an earlier event targeted) gets target 0, whatever the
\* timestamp and duration of the earlier event.
C12_LastWriteWins ==
  [][(isSpeaking /\ isSpeaking' /\ now' # now) =>
       LET row == targetMorphs(visemeData'.phoneme)
       IN /\ visemeData'.timestamp = now'
          /\ DOMAIN row \subseteq DOMAIN lipSyncMorphTargets'
          /\ \A k \in DOMAIN row :
               10 * (lipSyncMorphTargets'[k] - Get(lipSyncMorphTargets, k)) =
                 7 * (row[k] * visemeData'.intensity * (Scale \div 100)
                      - Get(lipSyncMorphTargets, k))
          /\ \A k \in DOMAIN lipSyncMorphTargets \ DOMAIN row :
               10 * lipSyncMorphTargets'[k] = 3 * lipSyncMorphTargets[k]]_vars

\* an "iy" of short duration has replaced an "aa": mouthFunnel, which only
\* the "aa" targeted, has decayed from 0.14 to 0.042
C12_Witness ==
  /\ isSpeaking /\ visemeData # None
  /\ visemeData.phoneme = "iy" /\ visemeData.duration = 50
  /\ visemeData.timestamp >= 2
  /\ "mouthFunnel" \in DOMAIN lipSyncMorphTargets
  /\ lipSyncMorphTargets["mouthFunnel"] = 42 * (Scale \div 1000)

\* a step in which the emotion effect runs and the lip-sync effect does not:
\* its end is the state right after the expression pass
ExpressionPass ==
  /\ emotion' # emotion
  /\ isSpeaking' = isSpeaking /\ visemeData' = visemeData

\* the weight (hundredths) the expression pass leaves on channel c for the
\* emotion e
ExpressionOf(e, c) ==
  CASE e = "happy" /\ c \in {"mouthSmileLeft", "mouthSmileRight"} -> 70
    [] e = "sad" /\ c \in {"mouthFrownLeft", "mouthFrownRight"} -> 50
    [] e = "surprised" /\ c \in {"eyeWideLeft", "eyeWideRight"} -> 80
    [] e = "surprised" /\ c = "jawOpen" -> 30
    [] OTHER -> 0

\* C13: right after the expression pass of an emotion change the seven
\* expression channels hold the override of the new emotion and 0
\* elsewhere, whatever they held before: happy -> smiles 0.7; sad -> frowns
\* 0.5; surprised -> eyeWide 0.8 and jawOpen 0.3; any other tag -> all 0.
C13_ExpressionAfterChange ==
  [][ExpressionPass =>
       \A c \in emotionTargets \cap morphTargetDictionary :
         morphTargetInfluences'[c] = ExpressionOf(emotion', c) * (Scale \div 100)]_vars

\* surprised over a speaking face: jawOpen, which the lip sync had at
\* 0.49, holds the override 0.3
C13_Witness ==
  /\ emotion = "surprised" /\ isSpeaking
  /\ "jawOpen" \in DOMAIN lipSyncMorphTargets
  /\ lipSyncMorphTargets["jawOpen"] = 49 * (Scale \div 100)
  /\ morphTargetInfluences["jawOpen"] = 30 * (Scale \div 100)
  /\ morphTargetInfluences["eyeWideLeft"] = 80 * (Scale \div 100)
  /\ morphTargetInfluences["mouthSmileLeft"] = 0

\* the emotion tags of the closed set
KnownTags == {"neutral", "happy", "sad", "surprised", "excited", "calm"}

\* C14: a change to an emotion tag outside the known set leaves the
\* expression unchanged: the expression channels of the mesh keep their
\* weights.
C14_UnknownKeepsExpression ==
  [][(ExpressionPass /\ emotion' \notin KnownTags) =>
       \A c \in emotionTargets \cap morphTargetDictionary :
         morphTargetInfluences'[c] = morphTargetInfluences[c]]_vars

\* C14 as amended: a change to an emotion tag outside the known set resets
\* the expression: right after the expression pass the seven expression
\* channels of the mesh are 0 and every other channel keeps its weight.
C14_UnknownResetsExpression ==
  [][(ExpressionPass /\ emotion' \notin KnownTags) =>
       \A c \in morphTargetDictionary :
         morphTargetInfluences'[c] =
           IF c \in emotionTargets THEN 0 ELSE morphTargetInfluences[c]]_vars

\* an unknown tag after happy over a face whose lip sync did not run since:
\* the smiles are back at 0 while mouthFunnel keeps its lip-sync weight
C14_Witness ==
  /\ emotion = "angry"
  /\ morphTargetInfluences["mouthSmileLeft"] = 0
  /\ morphTargetInfluences["mouthSmileRight"] = 0
  /\ morphTargetInfluences["jawOpen"] = 0
  /\ "jawOpen" \in DOMAIN lipSyncMorphTargets
  /\ lipSyncMorphTargets["jawOpen"] > 0
  /\ morphTargetInfluences["mouthFunnel"] > 0

\* C15: for a phoneme that is not a key of the table (such as "oh") the
\* target set is empty: the update adds no channel and moves every channel
\* of the previous output toward 0, new[k] = old[k] * 0.3.
C15_UnknownPhoneme ==
  [][(SpeakingUpdate /\ visemeData'.phoneme \notin DOMAIN VISEME_TO_MORPH_TARGET) =>
       /\ DOMAIN lipSyncMorphTargets' = DOMAIN lipSyncMorphTargets
       /\ \A k \in DOMAIN lipSyncMorphTargets :
            10 * lipSyncMorphTargets'[k] = 3 * lipSyncMorphTargets[k]]_vars

\* an "oh" after an "aa": jawOpen has gone from 0.49 to 0.147 and the
\* output has the two channels of "aa" only
C15_Witness ==
  /\ isSpeaking /\ visemeData # None /\ visemeData.phoneme = "oh"
  /\ currentViseme = "oh"
  /\ DOMAIN lipSyncMorphTargets = {"jawOpen", "mouthFunnel"}
  /\ lipSyncMorphTargets["jawOpen"] = 147 * (Scale \div 1000)

\* C16: while speaking with an active viseme the target of a channel is
\* tableValue * intensity * visemeData.intensity without clamping, also
\* for an event intensity above 1 or below 0, and the mesh receives the
\* smoothed weight as it is.
C16_NoClamping ==
  [][SpeakingUpdate =>
       LET row == targetMorphs(visemeData'.phoneme)
       IN \A k \in DOMAIN lipSyncMorphTargets' :
            LET old == Get(lipSyncMorphTargets, k)
                target == Get(row, k) * intensity * visemeData'.intensity
                            * (Scale \div 1000)
            IN /\ 10 * (lipSyncMorphTargets'[k] - old) = 7 * (target - old)
               /\ k \in morphTargetDictionary =>
                    morphTargetInfluences'[k] = lipSyncMorphTargets'[k]]_vars

\* two "aa" at intensity 2 (target 1.4): jawOpen is 1.274 on the mesh
C16_Witness ==
  /\ isSpeaking /\ visemeData # None
  /\ visemeData.phoneme = "aa" /\ visemeData.intensity = 20
  /\ "jawOpen" \in DOMAIN lipSyncMorphTargets
  /\ lipSyncMorphTargets["jawOpen"] = 1274 * (Scale \div 1000)
  /\ morphTargetInfluences["jawOpen"] = 1274 * (Scale \div 1000)

\* a step in which the lip-sync effect runs
LipSyncUpdate == isSpeaking' # isSpeaking \/ visemeData' # visemeData

\* C17: when the same target T in [0,1] is applied to a channel in N
\* consecutive lip-sync updates, the weight (starting in [0,1]) is within
\* 0.3^N of T after the N-th update, and every update moves the weight
\* toward T without overshooting or moving away.
C17_Convergence ==
  /\ [](\A k \in LipChannels :
          LET T == Get(targetsOf(isSpeaking, visemeData), k)
              N == heldRuns[k]
          IN Abs(Get(lipSyncMorphTargets, k) - T) <= (3 ^ N) * (10 ^ (Digits - N)))
  /\ [][LipSyncUpdate =>
          \A k \in LipChannels :
            LET T == Get(targetsOf(isSpeaking', visemeData'), k)
                old == Get(lipSyncMorphTargets, k)
                new == Get(lipSyncMorphTargets', k)
            IN (old <= T => old <= new /\ new <= T)
               /\ (old >= T => T <= new /\ new <= old)]_vars

\* three updates with "aa" at intensity 1.0 from silence: jawOpen is at
\* 0.6811, within 0.027 of its target 0.7
C17_Witness ==
  /\ isSpeaking /\ visemeData # None /\ visemeData.phoneme = "aa"
  /\ heldRuns["jawOpen"] = 3
  /\ lipSyncMorphTargets["jawOpen"] = 6811 * (Scale \div 10000)

\* C18: from an empty lip-sync state, one update with "aa" at event
\* intensity 1.0 (gain 1.0, smoothing 0.3) while speaking yields jawOpen
\* 0.49, mouthFunnel 0.14 and no other channel.
C18_FirstUpdate ==
  [][(SpeakingUpdate /\ lipSyncMorphTargets = <<>>
      /\ visemeData'.phoneme = "aa" /\ visemeData'.intensity = 10) =>
       lipSyncMorphTargets' = [jawOpen |-> 49 * (Scale \div 100),
                               mouthFunnel |-> 14 * (Scale \div 100)]]_vars

\* the first event of the speech is "aa" at intensity 1.0
C18_Witness ==
  /\ isSpeaking /\ visemeData # None
  /\ visemeData.phoneme = "aa" /\ visemeData.intensity = 10
  /\ visemeData.timestamp = 1
  /\ lipSyncMorphTargets = [jawOpen |-> 49 * (Scale \div 100),
                            mouthFunnel |-> 14 * (Scale \div 100)]

\* C19: with the emotion neutral from the mount onward, after any sequence
\* of isListening/isSpeaking changes the state is (talking, 1.2, engaged)
\* when isSpeaking, else (listening, 0.8, attentive) when isListening, else
\* (idle, 1.0, neutral).
C19_ModeResolution ==
  <<currentAnimation, animationSpeed, bodyPose>> =
    IF isSpeaking THEN <<"talking", 12, "engaged">>
    ELSE IF isListening THEN <<"listening", 8, "attentive">>
    ELSE <<"idle", 10, "neutral">>

\* listening after a change of both flags and a frame, the emotion neutral
C19_Witness ==
  /\ emotion = "neutral" /\ isListening /\ ~isSpeaking
  /\ currentAnimation = "listening" /\ animationSpeed = 8 /\ bodyPose = "attentive"
  /\ elapsedTime > 0

\* C20: with isListening and isSpeaking unchanged, a change of the emotion
\* to happy, sad, excited or calm sets (animationSpeed, bodyPose) to
\* (1.3, cheerful), (0.7, dejected), (1.5, energetic), (0.9, relaxed); a
\* change to any other tag leaves them at the values of the
\* listening/speaking resolution for the current flags.
C20_EmotionChange ==
  [][(emotion' # emotion /\ isListening' = isListening /\ isSpeaking' = isSpeaking) =>
       <<animationSpeed', bodyPose'>> =
         CASE emotion' = "happy" -> <<13, "cheerful">>
           [] emotion' = "sad" -> <<7, "dejected">>
           [] emotion' = "excited" -> <<15, "energetic">>
           [] emotion' = "calm" -> <<9, "relaxed">>
           [] OTHER -> IF isSpeaking THEN <<12, "engaged">>
                       ELSE IF isListening THEN <<8, "attentive">>
                       ELSE <<10, "neutral">>]_vars

\* C21: a clip is stopped, reset or started only when the resolved clip
\* name changes: in a step that leaves currentAnimation unchanged and loads
\* no model (a frame, a viseme update, a change of the emotion or of the
\* speed) the same clips run, at their times, advanced by the frame's
\* delta in a frame.
C21_ClipsChangeWithName ==
  [][(currentAnimation' = currentAnimation /\ gltf' = gltf) =>
       /\ running' = running
       /\ IF propVars' = propVars
            THEN \E d \in Deltas :
                   clipTime' = [i \in DOMAIN clipTime |->
                                  IF i \in running
                                    THEN (clipTime[i] + d * animationSpeed) % ClipDuration
                                    ELSE clipTime[i]]
            ELSE clipTime' = clipTime]_vars

\* the talking clip has played on through an emotion change and an event
C21_Witness ==
  /\ isSpeaking /\ emotion = "happy" /\ now >= 1
  /\ currentAnimation = "talking"
  /\ \E i \in running : animations[i] = Talking /\ clipTime[i] > 0

\* the first clip whose lower-cased name contains the name, 0 if none
FirstWith(name) ==
  LET hits == {i \in 1..Len(animations) : includes(toLowerCase(animations[i]), name)}
  IN IF hits = {} THEN 0 ELSE CHOOSE i \in hits : \A j \in hits : i <= j

C30_OneClipPlaying ==
  Cardinality(running) <= 1

\* C23: the blink pass writes eyeBlinkLeft and eyeBlinkRight only, both
\* with the same value, and no other pass writes them: the two weights are
\* equal in every state, they change only in a frame inside the blink
\* window, to the pulse of that frame, and a frame changes nothing else on
\* the mesh.
C23_BlinkOwnsItsChannels ==
  /\ [](morphTargetInfluences["eyeBlinkLeft"] = morphTargetInfluences["eyeBlinkRight"])
  /\ [][\A c \in morphTargetDictionary :
          IF c \in BlinkChannels
            THEN morphTargetInfluences'[c] =
                   IF propVars' = propVars /\ elapsedTime' % 3000 < 150
                     THEN sinPi(elapsedTime' % 3000, 150)
                     ELSE morphTargetInfluences[c]
            ELSE propVars' = propVars =>
                   morphTargetInfluences'[c] = morphTargetInfluences[c]]_vars

\* the eyes are half closed, by the frame at 25 ms, on a happy face that
\* has spoken since and is outside the blink window now
C23_Witness ==
  /\ morphTargetInfluences["eyeBlinkLeft"] = Scale \div 2
  /\ morphTargetInfluences["eyeBlinkRight"] = Scale \div 2
  /\ elapsedTime = 150
  /\ emotion = "happy" /\ isSpeaking /\ visemeData # None
  /\ lipSyncMorphTargets # <<>>

\* C24: applying the lip-sync output to the mesh changes only the channels
\* that are keys of lipSyncMorphTargets and exist on the mesh; every other
\* channel of the mesh keeps its value and a key the mesh lacks is skipped,
\* nothing being written for it.
C24_LipSyncWritesItsKeys ==
  [][(LipSyncUpdate /\ emotion' = emotion) =>
       /\ DOMAIN morphTargetInfluences' = morphTargetDictionary
       /\ \A c \in morphTargetDictionary :
            morphTargetInfluences'[c] =
              IF c \in DOMAIN lipSyncMorphTargets'
                THEN lipSyncMorphTargets'[c]
                ELSE morphTargetInfluences[c]]_vars

\* an "aa" on a happy face whose mesh lacks mouthFunnel: jawOpen is written,
\* mouthSmileLeft keeps the smile of the emotion
C24_Witness ==
  /\ morphTargetDictionary = PartialChannels
  /\ emotion = "happy" /\ isSpeaking /\ visemeData # None
  /\ DOMAIN lipSyncMorphTargets = {"jawOpen", "mouthFunnel"}
  /\ morphTargetInfluences["jawOpen"] = 49 * (Scale \div 100)
  /\ morphTargetInfluences["mouthSmileLeft"] = 70 * (Scale \div 100)

\* C25: in App, isListening and isSpeaking are never both true, under any
\* interleaving of toggleListening and toggleSpeaking calls, their awaited
\* invokes and the failures of these.
C25_NeverBoth ==
  ~(isListening /\ isSpeaking)

\* speech was started while a start of listening was still awaiting its
\* invoke
C25_Witness ==
  /\ isSpeaking /\ ~isListening
  /\ \E i \in 1..Len(inFlight) : inFlight[i].command = "start_listening"

\* C26: whenever no toggle call is in flight, processingMode agrees with
\* the flags: speaking iff isSpeaking, listening iff isListening, idle iff
\* both are false.
C26_ModeAgrees ==
  inFlight = <<>> =>
    /\ processingMode = "speaking" <=> isSpeaking
    /\ processingMode = "listening" <=> isListening
    /\ processingMode = "idle" <=> (~isListening /\ ~isSpeaking)

\* C27: a tick of a timer of simulateVisemeData while the speech has not
\* been stopped and visemes of the list remain delivers the next viseme of
\* the list and keeps the timer; the timer stops, clearing visemeData, only
\* after the last one or once the speech is stopped.
C27_VisemesDelivered ==
  [][\A j \in 1..Len(intervals) :
       (isSpeaking /\ intervals[j].index < Len(visemes)
        /\ intervals' # intervals /\ inFlight' = inFlight
        /\ (Len(intervals') < Len(intervals) => intervals' = RemoveAt(intervals, j))
        /\ (Len(intervals') = Len(intervals) => intervals'[j] # intervals[j])) =>
         /\ Len(intervals') = Len(intervals)
         /\ intervals'[j].index = intervals[j].index + 1
         /\ visemeData'.phoneme = visemes[intervals[j].index + 1]]_vars

\* C28: with event intensities in [0, 1], gain 1.0 and smoothing in [0, 1),
\* after any sequence of lip-sync updates (speaking or not, known or unknown
\* phonemes) every weight of lipSyncMorphTargets lies in [0, 1].
C28_WeightsInUnitRange ==
  (intensity = 10 /\ smoothing \in 0..9) =>
    \A k \in DOMAIN lipSyncMorphTargets :
      lipSyncMorphTargets[k] >= 0 /\ lipSyncMorphTargets[k] <= Scale

\* channels of "b" (table value 1.0) and of "uw" hold weights, one of them
\* strictly between 0 and 1, and the current event has an unknown phoneme
C28_Witness ==
  /\ isSpeaking /\ visemeData # None /\ visemeData.phoneme = "xx"
  /\ \E k \in DOMAIN lipSyncMorphTargets :
       lipSyncMorphTargets[k] > 0 /\ lipSyncMorphTargets[k] < Scale
  /\ "mouthClose" \in DOMAIN lipSyncMorphTargets
  /\ "mouthFunnel" \in DOMAIN lipSyncMorphTargets

\* the channels the override of the emotion e shares with the lip sync
SharedOverride(e) ==
  CASE e = "happy" -> {"mouthSmileLeft", "mouthSmileRight"}
    [] e = "surprised" -> {"jawOpen"}
    [] OTHER -> {}

\* speech has stopped under the emotion happy or surprised after the lip
\* sync drove a channel of the emotion's override
UtteranceOver ==
  /\ ~isSpeaking
  /\ SharedOverride(emotion) \cap DOMAIN lipSyncMorphTargets # {}

\* the mesh holds the override of the current emotion on the shared channels
OverrideHeld ==
  \A c \in SharedOverride(emotion) \cap morphTargetDictionary :
    morphTargetInfluences[c] = W(ExpressionOf(emotion, c))

\* C29: the emotion's expression survives an utterance: when the emotion is
\* happy (or surprised) and unchanged while speech starts, visemes drive the
\* smiles (or jawOpen) and speech stops, then eventually, unless speech
\* starts again or the emotion changes, the mesh again holds the override
\* on those channels (0.7 for the smiles, 0.3 for jawOpen).
C29_ExpressionSurvives ==
  UtteranceOver ~> (~UtteranceOver \/ OverrideHeld)

=============================================================================
